---- MODULE Spec2Model ----
(***************************************************************************)
(* Ingestion & enrichment pipeline of jobs.backend.                        *)
(*                                                                         *)
(*  LockSpec : app/scheduler.py  -- the cron lock and run_daily_ingestion  *)
(*             run by several Uvicorn workers against one cron_locks row.  *)
(*  Spec     : app/services/ingestion_service.py, enrichment_service.py -- *)
(*             an ingest run followed by a second run of the source.       *)
(*  SweepSpec: an ingest run followed by the reconciliation sweep          *)
(*             (routers/admin.py::_reenrich_unenriched_jobs).              *)
(*  RaceSpec : the same steps with the two triggers overlapping.           *)
(*  EnrichSpec : routers/jobs.py -- enrich_job as the background task of   *)
(*             a posted job, with the jobs table emptied in between.       *)
(*  TriggerSpec : the administrative trigger endpoints and                 *)
(*             scheduler.trigger_ingestion over the registered scrapers.   *)
(***************************************************************************)
EXTENDS Integers, Sequences, FiniteSets, TLC

\* ------------------------------------------------------------------------
\* Bounds
\* ------------------------------------------------------------------------
\* Minutes on the model clock (must exceed the TTL so that expiry happens).
MaxTime == 33

\* Longest batch a source returns from one fetch (Spec, SweepSpec).
MaxBatch == 2

\* Longest batch a source returns from one fetch when triggers overlap (RaceSpec).
MaxRaceBatch == 1

\* Number of registered scrapers a sweep over all sources runs (TriggerSpec).
MaxSources == 2

\* ------------------------------------------------------------------------
\* Program constants
\* ------------------------------------------------------------------------
\* (a TTL written in seconds where minutes are expected)
_LOCK_TTL_InSeconds == 30 * 60

_LOCK_TTL_MINUTES == 30

\* "2000-01-01T00:00:00Z": an instant before every value of the clock.
FarPast == 0

Workers == {"A", "B", "C"}

\* The two triggers of the pipeline: "r1" is an ingest run; "r2" is either a
\* second ingest run of the same source (a manual trigger next to the
\* scheduled one) or the re-enrichment sweep.
Procs == {"r1", "r2"}

\* COMPANY_NAME of the source both runs ingest.
COMPANY == "PwC"

Null == "null"

VARIABLES
    \* ---- cron lock (scheduler.py) ----
    now,            \* wall clock of the lock store, in minutes
    lockRow,        \* the cron_locks row 'daily_ingestion'
    wpc,            \* position of each worker in run_daily_ingestion
    holder,         \* ghost: worker and time of the last store-granted acquire not yet released
    lastCall,       \* ghost: the acquire call made by the last step (Null otherwise)
    roundCallers,   \* ghost: workers whose acquire reached the store since the last tick/release
    roundWinners,   \* ghost: those of them that were answered true
    roundFree,      \* ghost: the row was absent or expired when the round began
    unsafeRun       \* ghost: some acquire failed open, or a run (sweep, release) outlived the TTL

VARIABLES
    \* ---- jobs table, scraping_logs and the pipeline (services, admin) ----
    upstream,       \* what the source's fetch_jobs() currently returns
    jobs,           \* the jobs table; the row id is the index
    logs,           \* the scraping_logs table; the row id is the index
    st,             \* per trigger: position and locals of ingest_jobs / enrich_job
    sw,             \* locals of _reenrich_unenriched_jobs
    genSeq,         \* number of generate_enrichment calls made so far (returned or raised)
    embSeq,         \* number of encode calls made so far
    overlap,        \* ghost: a trigger started while the other one was running
    anyFailure,     \* ghost: some store, source or AI call has raised
    enrichFailedIn, \* ghost: job ids whose enrich_job call inside ingest_jobs failed
    sweepFailedIds, \* ghost: job ids the sweep counted in its failed counter
    dupRejected     \* ghost: the store has rejected an insert of an existing identity key

VARIABLES
    \* ---- the administrative triggers and scheduler.trigger_ingestion ----
    trig            \* the request, its response and the locals of the queued task

ingestVars == <<upstream, jobs, logs, st, sw, genSeq, embSeq, overlap,
                anyFailure, enrichFailedIn, sweepFailedIds, dupRejected>>

lockVars == <<now, lockRow, wpc, holder, lastCall, roundCallers, roundWinners,
              roundFree, unsafeRun>>

vars == <<now, lockRow, wpc, holder, lastCall, roundCallers, roundWinners,
          roundFree, unsafeRun, upstream, jobs, logs, st, sw, genSeq, embSeq,
          overlap, anyFailure, enrichFailedIn, sweepFailedIds, dupRejected, trig>>

\* ------------------------------------------------------------------------
\* Cron lock
\* ------------------------------------------------------------------------
NoRow == [exists |-> FALSE, locked_until |-> FarPast]

\* The row is absent, or its expiry has passed.
LockFree(row, t) == ~row.exists \/ row.locked_until < t

\* SQL function acquire_cron_lock(p_lock_name, p_ttl_minutes): atomic
\* INSERT ... ON CONFLICT DO UPDATE ... WHERE locked_until < NOW().
acquire_cron_lock_rpc(row, t, ttl) ==
    IF LockFree(row, t)
    THEN [data |-> TRUE,  row |-> [exists |-> TRUE, locked_until |-> t + ttl]]
    ELSE [data |-> FALSE, row |-> row]

\* _acquire_cron_lock: the value returned to run_daily_ingestion.
AcquireResult_AlwaysTrue(storeOk, data) == TRUE

AcquireResult_FailClosed(storeOk, data) == storeOk /\ data

AcquireResult(storeOk, data) ==
    IF storeOk THEN data ELSE TRUE

\* run_daily_ingestion: "if not await _acquire_cron_lock(...): return".
RunProceeds_Ignored(acquired) == TRUE

RunProceeds(acquired) == acquired

\* _release_cron_lock: UPDATE cron_locks SET locked_until = <far past>
\* WHERE lock_name = ...; an absent row stays absent; a failure is swallowed.
ReleasedRow_Noop(row, storeOk) == row

ReleasedRow(row, storeOk) ==
    IF storeOk /\ row.exists
    THEN [exists |-> TRUE, locked_until |-> FarPast]
    ELSE row

NoHolder == [w |-> Null, t0 |-> 0]

NoCall == [w |-> Null, storeOk |-> FALSE, res |-> FALSE, at |-> 0,
           prevRow |-> NoRow, prevHolder |-> NoHolder]

\* ------------------------------------------------------------------------
\* Postings, records and pure helpers of the pipeline
\* ------------------------------------------------------------------------
\* A description_raw that is not a string: hashing it raises.
BadDesc == "<not-a-string>"

\* The postings the source can return. base_scraper always sets external_id,
\* title and company_name; a posting differs in its key, description and skills.
Postings ==
    { [external_id |-> "e1", description_raw |-> "d1", skills_required |-> {"sql"}],
      [external_id |-> "e2", description_raw |-> "d1", skills_required |-> {}],
      [external_id |-> "e3", description_raw |-> "",   skills_required |-> {}],
      [external_id |-> "e2", description_raw |-> BadDesc, skills_required |-> {}] }

RECURSIVE SeqsUpTo(_, _)
SeqsUpTo(S, n) ==
    IF n = 0 THEN {<<>>}
    ELSE LET shorter == SeqsUpTo(S, n - 1)
         IN  shorter \cup {Append(q, x) : q \in {t \in shorter : Len(t) = n - 1}, x \in S}

Batches == SeqsUpTo(Postings, MaxBatch)

RaceBatches == SeqsUpTo(Postings, MaxRaceBatch)

\* Listings of a source in a sweep over several sources: nothing, or one posting.
SourceListings == {<<>>} \cup {<<job_data>> : job_data \in Postings}

\* hashlib.sha256(desc_raw.encode()).hexdigest() if desc_raw else None
\* (the digest is collision free on the descriptions of the model).
DescHash(desc_raw) ==
    IF desc_raw = "" THEN Null ELSE "sha256:" \o desc_raw

NoStats == [fetched |-> 0, new |-> 0, skipped |-> 0, errors |-> 0, dedup_hits |-> 0]

\* stats["skipped"] += 1
CountSkipped_AsNew(stats) == [stats EXCEPT !.new = @ + 1]

CountSkipped(stats) == [stats EXCEPT !.skipped = @ + 1]

\* stats["errors"] += 1
CountError_Dropped(stats) == stats

CountError(stats) == [stats EXCEPT !.errors = @ + 1]

\* stats["new"] += 1
CountNew(stats) == [stats EXCEPT !.new = @ + 1]

\* stats["new"] += 1; stats["dedup_hits"] += 1
CountDedupHit_HitNotCounted(stats) == [stats EXCEPT !.new = @ + 1]

CountDedupHit(stats) == [stats EXCEPT !.new = @ + 1, !.dedup_hits = @ + 1]

\* The for loop after the except clause: index of the posting handled next.
LoopAfterError_Abort(i, n) == n + 1

LoopAfterError(i, n) == i + 1

\* final_status of the scraping log
FinalStatus_StaysRunning(stats) == "running"

FinalStatus_NoPartial(stats) ==
    IF stats.errors > 0 THEN "failed" ELSE "success"

FinalStatus(stats) ==
    IF stats.errors > 0 /\ stats.new > 0 THEN "partial"
    ELSE IF stats.errors > 0 /\ stats.new = 0 THEN "failed"
    ELSE "success"

\* final_skills = skills if skills else enrichment.extracted_skills
FinalSkills_AlwaysExtracted(skills, extracted) == extracted

FinalSkills(skills, extracted) == IF skills # {} THEN skills ELSE extracted

\* The row inserted by ingest_jobs; enrichment columns start NULL (0).
NewJobRow(job_data, desc_hash) ==
    [company_name           |-> COMPANY,
     external_id            |-> job_data.external_id,
     description_raw        |-> job_data.description_raw,
     description_hash       |-> desc_hash,
     skills_required        |-> job_data.skills_required,
     resume_guide_generated |-> 0,
     prep_guide_generated   |-> 0,
     embedding              |-> 0,
     salary_range           |-> 0,
     status                 |-> "processing",
     gen_calls              |-> 0]

\* Ids of the rows of the jobs table; a deleted row keeps its index.
JobIds == {id \in 1..Len(jobs) : jobs[id].status # "deleted"}

\* find_job_by_external_id: ids of the rows with this identity key.
find_job_by_external_id_NoMatch(company, ext_id) == {}

find_job_by_external_id(company, ext_id) ==
    {id \in JobIds : jobs[id].company_name = company /\ jobs[id].external_id = ext_id}

\* find_job_by_description_hash: rows with this hash and a non-null embedding
\* (limit 1 returns any one of them).
find_job_by_description_hash(h) ==
    {id \in JobIds : jobs[id].description_hash = h /\ jobs[id].embedding # 0}

\* The storage layer's uniqueness constraint on (company_name, external_id):
\* an insert of an existing key is rejected.
InsertRejected_NoConstraint(row) == FALSE

InsertRejected(row) ==
    find_job_by_external_id(row.company_name, row.external_id) # {}

\* The columns copied from the donor on a dedup hit.
CloneFields_NoEmbedding(row, donor) ==
    [row EXCEPT !.resume_guide_generated = donor.resume_guide_generated,
                !.prep_guide_generated   = donor.prep_guide_generated,
                !.status                 = "active"]

CloneFields(row, donor) ==
    [row EXCEPT !.resume_guide_generated = donor.resume_guide_generated,
                !.prep_guide_generated   = donor.prep_guide_generated,
                !.embedding              = donor.embedding,
                !.status                 = "active"]

\* The single update_job call of enrich_job.
EnrichFields_NoQuestions(row, out, emb, skills) ==
    [row EXCEPT !.resume_guide_generated = out,
                !.skills_required        = FinalSkills(skills, {"ai-skill"}),
                !.embedding              = emb,
                !.salary_range           = out]

EnrichFields(row, out, emb, skills) ==
    [row EXCEPT !.resume_guide_generated = out,
                !.prep_guide_generated   = out,
                !.skills_required        = FinalSkills(skills, {"ai-skill"}),
                !.embedding              = emb,
                !.salary_range           = out]

\* _reenrich_unenriched_jobs: the filter that selects the candidates.
Unenriched(row) ==
    \/ row.prep_guide_generated = 0
    \/ row.resume_guide_generated = 0
    \/ row.embedding = 0

NoDonor == [resume_guide_generated |-> 0, prep_guide_generated |-> 0, embedding |-> 0]

NoJob == [description_raw |-> "", skills_required |-> {}]

\* The columns enrich_job writes, as read from a row.
EnrichmentOf(row) ==
    [resume_guide_generated |-> row.resume_guide_generated,
     prep_guide_generated   |-> row.prep_guide_generated,
     skills_required        |-> row.skills_required,
     embedding              |-> row.embedding,
     salary_range           |-> row.salary_range]

NoEnrichment ==
    [resume_guide_generated |-> 0, prep_guide_generated |-> 0, skills_required |-> {},
     embedding |-> 0, salary_range |-> 0]

IdleProc ==
    [pc      |-> "idle",     \* position in ingest_jobs / enrich_job / the sweep
     kind    |-> "none",     \* "ingest" or "sweep" once started
     source  |-> COMPANY,    \* scraper.COMPANY_NAME, the company_name of its postings
     log_id  |-> 0,
     raw_jobs |-> <<>>,
     fetched_ok |-> FALSE,
     i       |-> 0,          \* index of the posting being processed
     stats   |-> NoStats,
     desc_hash |-> Null,
     created |-> 0,          \* created["id"]
     donor   |-> NoDonor,
     job_id  |-> 0,          \* enrich_job: argument
     job     |-> NoJob,      \* enrich_job: the fetched record
     out     |-> 0,          \* enrich_job: the AIEnrichment returned
     emb     |-> 0,          \* enrich_job: the embedding returned
     en_failed |-> FALSE,    \* ghost: the running enrich_job call has failed
     before  |-> NoEnrichment, \* ghost: the record's enrichment columns when enrich_job was called
     en_trace |-> {},        \* ghost: what the running enrich_job call has done so far
     touched |-> FALSE,      \* ghost: the run has written to the jobs table
     gen_invoked |-> 0,      \* ghost: generate_enrichment calls made inside this run of ingest_jobs
     handled |-> 0,          \* ghost: postings that entered the loop body
     raised  |-> 0]          \* ghost: postings whose processing raised

NoSweep == [cands |-> <<>>, k |-> 0, success |-> 0, failed |-> 0]

NoTrigger ==
    [pc       |-> "idle",   \* position of the request and of its background task
     endpoint |-> Null,
     task     |-> Null,     \* the function handed to background_tasks.add_task
     arg      |-> Null,     \* scraper_name / source_name
     response |-> Null,     \* what the HTTP response carries
     scrapers |-> <<>>,     \* trigger_ingestion: the scrapers to run
     n        |-> 0,        \* trigger_ingestion: index of the scraper being run
     called   |-> <<>>,     \* ghost: scrapers ingest_jobs has been called with
     results  |-> <<>>]     \* trigger_ingestion: one entry per scraper run

LockInit ==
    /\ now = 1
    /\ lockRow = NoRow
    /\ wpc = [w \in Workers |-> "idle"]
    /\ holder = NoHolder
    /\ lastCall = NoCall
    /\ roundCallers = {}
    /\ roundWinners = {}
    /\ roundFree = FALSE
    /\ unsafeRun = FALSE

PipelineInit ==
    /\ trig = NoTrigger
    /\ logs = <<>>
    /\ st = [p \in Procs |-> IdleProc]
    /\ sw = NoSweep
    /\ overlap = FALSE
    /\ anyFailure = FALSE
    /\ enrichFailedIn = {}
    /\ sweepFailedIds = {}
    /\ dupRejected = FALSE

Running(p) == st[p].pc \notin {"idle", "done", "raised"}

Other(p) == CHOOSE q \in Procs : q # p

\* Move a trigger's record to the next posting of its batch.
AtPosting(rec, j) ==
    [rec EXCEPT !.i = j,
                !.pc = IF j > Len(rec.raw_jobs) THEN "finalize" ELSE "find",
                !.created = 0, !.donor = NoDonor, !.desc_hash = Null,
                !.job_id = 0, !.job = NoJob, !.out = 0, !.emb = 0, !.en_failed = FALSE,
                !.before = NoEnrichment, !.en_trace = {}]

\* "continue" / end of the loop body.
NextPosting(rec) == AtPosting(rec, rec.i + 1)

\* except Exception: stats["errors"] += 1, then the loop goes on.
OnError(rec) ==
    AtPosting([rec EXCEPT !.stats = CountError(@), !.raised = @ + 1],
              LoopAfterError(rec.i, Len(rec.raw_jobs)))

\* ------------------------------------------------------------------------
\* run_daily_ingestion, one step per awaited call
\* ------------------------------------------------------------------------
\* run_daily_ingestion up to the call of trigger_ingestion.
Acquire(w) ==
    /\ wpc[w] = "idle"
    /\ \E storeOk \in BOOLEAN :
         LET rpc      == acquire_cron_lock_rpc(lockRow, now, _LOCK_TTL_MINUTES)
             acquired == AcquireResult(storeOk, rpc.data)
             granted  == storeOk /\ rpc.data
         IN  /\ lockRow' = (IF storeOk THEN rpc.row ELSE lockRow)
             /\ wpc' = [wpc EXCEPT ![w] = IF RunProceeds(acquired) THEN "sweep" ELSE "idle"]
             /\ holder' = (IF granted THEN [w |-> w, t0 |-> now] ELSE holder)
             /\ lastCall' = [w |-> w, storeOk |-> storeOk, res |-> acquired, at |-> now,
                             prevRow |-> lockRow, prevHolder |-> holder]
             /\ roundFree' = (IF storeOk /\ roundCallers = {}
                              THEN LockFree(lockRow, now) ELSE roundFree)
             /\ roundCallers' = (IF storeOk THEN roundCallers \cup {w} ELSE roundCallers)
             /\ roundWinners' = (IF storeOk /\ acquired
                                 THEN roundWinners \cup {w} ELSE roundWinners)
             /\ unsafeRun' = (unsafeRun \/ ~storeOk)
    /\ UNCHANGED now
    /\ UNCHANGED ingestVars
    /\ UNCHANGED trig

\* trigger_ingestion(scraper_name="all") returns or raises: the finally
\* clause runs in both cases.
AfterTrigger_NoFinally(outcome) == IF outcome = "raised" THEN "idle" ELSE "release"

AfterTrigger(outcome) == "release"

SweepEnds(w) ==
    /\ wpc[w] = "sweep"
    /\ \E outcome \in {"returned", "raised"} :
         wpc' = [wpc EXCEPT ![w] = AfterTrigger(outcome)]
    /\ lastCall' = NoCall
    /\ UNCHANGED <<now, lockRow, holder, roundCallers, roundWinners, roundFree, unsafeRun>>
    /\ UNCHANGED ingestVars
    /\ UNCHANGED trig

\* The worker process dies inside the sweep: the finally clause never runs.
Crash(w) ==
    /\ wpc[w] = "sweep"
    /\ wpc' = [wpc EXCEPT ![w] = "crashed"]
    /\ lastCall' = NoCall
    /\ UNCHANGED <<now, lockRow, holder, roundCallers, roundWinners, roundFree, unsafeRun>>
    /\ UNCHANGED ingestVars
    /\ UNCHANGED trig

\* finally: await _release_cron_lock(lock_name)
Release(w) ==
    /\ wpc[w] = "release"
    /\ \E storeOk \in BOOLEAN :
         /\ lockRow' = ReleasedRow(lockRow, storeOk)
         /\ holder' = (IF storeOk /\ lockRow.exists THEN NoHolder ELSE holder)
         /\ roundCallers' = (IF storeOk /\ lockRow.exists THEN {} ELSE roundCallers)
         /\ roundWinners' = (IF storeOk /\ lockRow.exists THEN {} ELSE roundWinners)
    /\ wpc' = [wpc EXCEPT ![w] = "idle"]
    /\ lastCall' = NoCall
    /\ UNCHANGED <<now, roundFree, unsafeRun>>
    /\ UNCHANGED ingestVars
    /\ UNCHANGED trig

\* One minute passes.
Tick ==
    /\ now < MaxTime
    /\ now' = now + 1
    /\ lastCall' = NoCall
    /\ roundCallers' = {}
    /\ roundWinners' = {}
    /\ unsafeRun' = (unsafeRun \/ (\E w \in Workers : wpc[w] \in {"sweep", "release"}
                                     /\ LockFree(lockRow, now + 1)))
    /\ UNCHANGED <<lockRow, wpc, holder, roundFree>>
    /\ UNCHANGED ingestVars
    /\ UNCHANGED trig

\* ------------------------------------------------------------------------
\* IngestionService.ingest_jobs, one step per awaited call
\* ------------------------------------------------------------------------
NewLog == [status |-> "running", jobs_found |-> 0, jobs_new |-> 0, jobs_skipped |-> 0,
           error_count |-> 0, error_message |-> FALSE, traceback |-> FALSE,
           updates |-> 0]

\* except Exception: update_scraping_log(log_id, {"status": "failed",
\* "error_message": str(exc), "traceback": tb, ...})
FetchFailedLog_NoTraceback(log) ==
    [log EXCEPT !.status = "failed", !.error_message = TRUE, !.updates = @ + 1]

FetchFailedLog(log) ==
    [log EXCEPT !.status = "failed", !.error_message = TRUE, !.traceback = TRUE,
                !.updates = @ + 1]

\* insert_scraping_log({... "status": "running" ...}); it is not inside a try.
IStart(p) ==
    /\ st[p].pc = "idle"
    /\ \E ok \in BOOLEAN :
         IF ok
         THEN /\ logs' = Append(logs, NewLog)
              /\ st' = [st EXCEPT ![p].pc = "fetch", ![p].kind = "ingest",
                                  ![p].log_id = Len(logs) + 1]
              /\ UNCHANGED anyFailure
         ELSE /\ st' = [st EXCEPT ![p].pc = "raised", ![p].kind = "ingest"]
              /\ anyFailure' = TRUE
              /\ UNCHANGED logs
    /\ overlap' = (overlap \/ Running(Other(p)))
    /\ UNCHANGED <<upstream, jobs, sw, genSeq, embSeq, enrichFailedIn, sweepFailedIds,
                   dupRejected>>
    /\ UNCHANGED lockVars
    /\ UNCHANGED trig

\* Step 1: raw_jobs = await scraper.fetch_jobs(); on failure the log is set
\* to failed and the stats are returned.
IFetch(p) ==
    /\ st[p].pc = "fetch"
    /\ \E outcome \in {"ok", "fetch_raises", "fetch_and_log_raise"} :
         CASE outcome = "ok" ->
                /\ st' = [st EXCEPT ![p] =
                            AtPosting([@ EXCEPT !.raw_jobs = upstream,
                                                !.fetched_ok = TRUE,
                                                !.stats.fetched = Len(upstream)], 1)]
                /\ UNCHANGED <<logs, anyFailure>>
           [] outcome = "fetch_raises" ->
                /\ logs' = [logs EXCEPT ![st[p].log_id] = FetchFailedLog(@)]
                /\ st' = [st EXCEPT ![p].pc = "done"]
                /\ anyFailure' = TRUE
           [] outcome = "fetch_and_log_raise" ->
                /\ st' = [st EXCEPT ![p].pc = "raised"]
                /\ anyFailure' = TRUE
                /\ UNCHANGED logs
    /\ UNCHANGED <<upstream, jobs, sw, genSeq, embSeq, overlap,
                   enrichFailedIn, sweepFailedIds, dupRejected>>
    /\ UNCHANGED lockVars
    /\ UNCHANGED trig

\* Step 2, first half of the loop body: the identity lookup, the skip, and
\* the hash of the description.
IFind(p) ==
    /\ st[p].pc = "find"
    /\ LET rec      == [st[p] EXCEPT !.handled = @ + 1]
           job_data == rec.raw_jobs[rec.i]
       IN  \E ok \in BOOLEAN :
             IF ~ok
             THEN /\ st' = [st EXCEPT ![p] = OnError(rec)]
                  /\ anyFailure' = TRUE
             ELSE /\ UNCHANGED anyFailure
                  /\ IF find_job_by_external_id(rec.source, job_data.external_id) # {}
                     THEN st' = [st EXCEPT ![p] =
                                   NextPosting([rec EXCEPT !.stats = CountSkipped(@)])]
                     ELSE IF job_data.description_raw = BadDesc
                     THEN st' = [st EXCEPT ![p] = OnError(rec)]
                     ELSE st' = [st EXCEPT ![p] =
                                   [rec EXCEPT !.pc = "create",
                                               !.desc_hash = DescHash(job_data.description_raw)]]
    /\ UNCHANGED <<upstream, jobs, logs, sw, genSeq, embSeq, overlap,
                   enrichFailedIn, sweepFailedIds, dupRejected>>
    /\ UNCHANGED lockVars
    /\ UNCHANGED trig

\* created = await self._db.create_job({... "status": "processing"})
ICreate(p) ==
    /\ st[p].pc = "create"
    /\ LET rec == st[p]
           row == [NewJobRow(rec.raw_jobs[rec.i], rec.desc_hash)
                     EXCEPT !.company_name = rec.source]
       IN  \E ok \in BOOLEAN :
             IF ~ok
             THEN /\ st' = [st EXCEPT ![p] = OnError(rec)]
                  /\ anyFailure' = TRUE
                  /\ UNCHANGED <<jobs, dupRejected>>
             ELSE IF InsertRejected(row)
             THEN /\ st' = [st EXCEPT ![p] = OnError(rec)]
                  /\ dupRejected' = TRUE
                  /\ UNCHANGED <<jobs, anyFailure>>
             ELSE /\ jobs' = Append(jobs, row)
                  /\ st' = [st EXCEPT ![p] =
                              [rec EXCEPT !.created = Len(jobs) + 1,
                                          !.touched = TRUE,
                                          !.job_id  = IF rec.desc_hash # Null
                                                      THEN 0 ELSE Len(jobs) + 1,
                                          !.pc      = IF rec.desc_hash # Null
                                                      THEN "donor" ELSE "en_get"]]
                  /\ UNCHANGED <<anyFailure, dupRejected>>
    /\ UNCHANGED <<upstream, logs, sw, genSeq, embSeq, overlap,
                   enrichFailedIn, sweepFailedIds>>
    /\ UNCHANGED lockVars
    /\ UNCHANGED trig

\* donor = await self._db.find_job_by_description_hash(desc_hash)
IDonor(p) ==
    /\ st[p].pc = "donor"
    /\ LET rec    == st[p]
           donors == find_job_by_description_hash(rec.desc_hash)
       IN  \E ok \in BOOLEAN :
             IF ~ok
             THEN /\ st' = [st EXCEPT ![p] = OnError(rec)]
                  /\ anyFailure' = TRUE
             ELSE /\ UNCHANGED anyFailure
                  /\ IF donors = {}
                     THEN st' = [st EXCEPT ![p] =
                                   [rec EXCEPT !.pc = "en_get", !.job_id = rec.created]]
                     ELSE \E d \in donors :
                            st' = [st EXCEPT ![p] =
                                     [rec EXCEPT !.pc = "clone",
                                                 !.donor =
                                        [resume_guide_generated |-> jobs[d].resume_guide_generated,
                                         prep_guide_generated   |-> jobs[d].prep_guide_generated,
                                         embedding              |-> jobs[d].embedding]]]
    /\ UNCHANGED <<upstream, jobs, logs, sw, genSeq, embSeq, overlap,
                   enrichFailedIn, sweepFailedIds, dupRejected>>
    /\ UNCHANGED lockVars
    /\ UNCHANGED trig

\* Dedup hit: update_job(created["id"], {donor's enrichment, "status": "active"})
IClone(p) ==
    /\ st[p].pc = "clone"
    /\ LET rec == st[p]
       IN  \E ok \in BOOLEAN :
             IF ~ok
             THEN /\ st' = [st EXCEPT ![p] = OnError(rec)]
                  /\ anyFailure' = TRUE
                  /\ UNCHANGED jobs
             ELSE /\ jobs' = [jobs EXCEPT ![rec.created] = CloneFields(@, rec.donor)]
                  /\ st' = [st EXCEPT ![p] =
                              NextPosting([rec EXCEPT !.stats = CountDedupHit(@),
                                                      !.touched = TRUE])]
                  /\ UNCHANGED anyFailure
    /\ UNCHANGED <<upstream, logs, sw, genSeq, embSeq, overlap,
                   enrichFailedIn, sweepFailedIds, dupRejected>>
    /\ UNCHANGED lockVars
    /\ UNCHANGED trig

\* await self._db.update_job(created["id"], {"status": "active"}); stats["new"] += 1
IActivate(p) ==
    /\ st[p].pc = "activate"
    /\ LET rec == st[p]
       IN  \E ok \in BOOLEAN :
             IF ~ok
             THEN /\ st' = [st EXCEPT ![p] = OnError(rec)]
                  /\ anyFailure' = TRUE
                  /\ UNCHANGED jobs
             ELSE /\ jobs' = [jobs EXCEPT ![rec.created].status = "active"]
                  /\ st' = [st EXCEPT ![p] =
                              NextPosting([rec EXCEPT !.stats = CountNew(@),
                                                      !.touched = TRUE])]
                  /\ UNCHANGED anyFailure
    /\ UNCHANGED <<upstream, logs, sw, genSeq, embSeq, overlap,
                   enrichFailedIn, sweepFailedIds, dupRejected>>
    /\ UNCHANGED lockVars
    /\ UNCHANGED trig

\* Step 3: update_scraping_log(log_id, {final status and counts}); return stats
IFinalize(p) ==
    /\ st[p].pc = "finalize"
    /\ LET rec == st[p]
       IN  \E ok \in BOOLEAN :
             IF ok
             THEN /\ logs' = [logs EXCEPT ![rec.log_id] =
                                [@ EXCEPT !.status       = FinalStatus(rec.stats),
                                          !.jobs_found   = rec.stats.fetched,
                                          !.jobs_new     = rec.stats.new,
                                          !.jobs_skipped = rec.stats.skipped,
                                          !.error_count  = rec.stats.errors,
                                          !.updates      = @ + 1]]
                  /\ st' = [st EXCEPT ![p].pc = "done"]
                  /\ UNCHANGED anyFailure
             ELSE /\ st' = [st EXCEPT ![p].pc = "raised"]
                  /\ anyFailure' = TRUE
                  /\ UNCHANGED logs
    /\ UNCHANGED <<upstream, jobs, sw, genSeq, embSeq, overlap,
                   enrichFailedIn, sweepFailedIds, dupRejected>>
    /\ UNCHANGED lockVars
    /\ UNCHANGED trig

\* ------------------------------------------------------------------------
\* EnrichmentService.enrich_job, called by ingest_jobs and by the sweep
\* ------------------------------------------------------------------------
\* Where enrich_job returns to: it never raises.
ReturnPc(rec) ==
    IF rec.kind = "ingest" THEN "activate"
    ELSE IF rec.kind = "sweep" THEN "fix"
    ELSE "done"

EnrichReturns_Propagates(rec, failed) ==
    [rec EXCEPT !.pc = IF failed THEN "raised" ELSE ReturnPc(rec), !.en_failed = failed]

EnrichReturns(rec, failed) ==
    [rec EXCEPT !.pc = ReturnPc(rec), !.en_failed = failed]

FailedInIngest(rec) == IF rec.kind = "ingest" THEN {rec.job_id} ELSE {}

\* job = await self._db.get_job(job_id); "if not job: return"
EGet(p) ==
    /\ st[p].pc = "en_get"
    /\ LET rec   == [st[p] EXCEPT !.before = IF st[p].job_id \in JobIds
                                            THEN EnrichmentOf(jobs[st[p].job_id])
                                            ELSE NoEnrichment,
                                  !.en_trace = {"get_job"}]
       IN  \E ok \in BOOLEAN :
             IF ok /\ rec.job_id \in JobIds
             THEN /\ st' = [st EXCEPT ![p] =
                              [rec EXCEPT !.pc = "en_ai",
                                          !.job = [description_raw |-> jobs[rec.job_id].description_raw,
                                                   skills_required |-> jobs[rec.job_id].skills_required]]]
                  /\ UNCHANGED <<anyFailure, enrichFailedIn>>
             ELSE /\ st' = [st EXCEPT ![p] =
                              EnrichReturns([rec EXCEPT !.en_trace =
                                               IF ok THEN @ \cup {"not_found"} ELSE @], TRUE)]
                  /\ anyFailure' = (anyFailure \/ ~ok)
                  /\ enrichFailedIn' = enrichFailedIn \cup FailedInIngest(rec)
    /\ UNCHANGED <<upstream, jobs, logs, sw, genSeq, embSeq, overlap,
                   sweepFailedIds, dupRejected>>
    /\ UNCHANGED lockVars
    /\ UNCHANGED trig

\* enrichment = await self._ai.generate_enrichment(...);
\* embedding = await self._emb.encode(description)
\* Each call that returns gives a fresh value, numbered by the call; a
\* generate_enrichment call that raises has still been made.
EAi(p) ==
    /\ st[p].pc = "en_ai"
    /\ LET rec == [st[p] EXCEPT !.gen_invoked = IF st[p].kind = "ingest"
                                                THEN @ + 1 ELSE @]
       IN  \E outcome \in {"ok", "generate_raises", "encode_raises"} :
             CASE outcome = "ok" ->
                    /\ genSeq' = genSeq + 1
                    /\ embSeq' = embSeq + 1
                    /\ jobs' = [jobs EXCEPT ![rec.job_id].gen_calls = @ + 1]
                    /\ st' = [st EXCEPT ![p] =
                                [rec EXCEPT !.pc = "en_update", !.out = genSeq + 1,
                                            !.emb = embSeq + 1,
                                            !.en_trace = @ \cup {"generate", "encode"}]]
                    /\ UNCHANGED <<anyFailure, enrichFailedIn>>
               [] outcome = "generate_raises" ->
                    /\ genSeq' = genSeq + 1
                    /\ jobs' = [jobs EXCEPT ![rec.job_id].gen_calls = @ + 1]
                    /\ st' = [st EXCEPT ![p] =
                                EnrichReturns([rec EXCEPT !.en_trace = @ \cup {"generate"}],
                                              TRUE)]
                    /\ anyFailure' = TRUE
                    /\ enrichFailedIn' = enrichFailedIn \cup FailedInIngest(rec)
                    /\ UNCHANGED embSeq
               [] outcome = "encode_raises" ->
                    /\ genSeq' = genSeq + 1
                    /\ jobs' = [jobs EXCEPT ![rec.job_id].gen_calls = @ + 1]
                    /\ st' = [st EXCEPT ![p] =
                                EnrichReturns([rec EXCEPT !.en_trace =
                                                 @ \cup {"generate", "encode"}], TRUE)]
                    /\ anyFailure' = TRUE
                    /\ enrichFailedIn' = enrichFailedIn \cup FailedInIngest(rec)
                    /\ UNCHANGED embSeq
    /\ UNCHANGED <<upstream, logs, sw, overlap, sweepFailedIds, dupRejected>>
    /\ UNCHANGED lockVars
    /\ UNCHANGED trig

\* The row after update_job(job_id, data): an update of an absent row matches
\* nothing.
UpdatedRow_GuideOnly(row, out, emb, skills) ==
    IF row.status = "deleted" THEN row
    ELSE [row EXCEPT !.resume_guide_generated = out]

UpdatedRow(row, out, emb, skills) ==
    IF row.status = "deleted" THEN row
    ELSE EnrichFields(row, out, emb, skills)

\* await self._db.update_job(job_id, {guide, questions, skills, embedding, salary})
EUpdate(p) ==
    /\ st[p].pc = "en_update"
    /\ LET rec == [st[p] EXCEPT !.en_trace = @ \cup {"update_job"}]
       IN  \E ok \in BOOLEAN :
             IF ok
             THEN /\ jobs' = [jobs EXCEPT ![rec.job_id] =
                                UpdatedRow(@, rec.out, rec.emb, rec.job.skills_required)]
                  /\ st' = [st EXCEPT ![p] =
                              EnrichReturns([rec EXCEPT !.touched = TRUE,
                                                        !.en_trace = @ \cup {"written"}],
                                            FALSE)]
                  /\ UNCHANGED <<anyFailure, enrichFailedIn>>
             ELSE /\ st' = [st EXCEPT ![p] = EnrichReturns(rec, TRUE)]
                  /\ anyFailure' = TRUE
                  /\ enrichFailedIn' = enrichFailedIn \cup FailedInIngest(rec)
                  /\ UNCHANGED jobs
    /\ UNCHANGED <<upstream, logs, sw, genSeq, embSeq, overlap,
                   sweepFailedIds, dupRejected>>
    /\ UNCHANGED lockVars
    /\ UNCHANGED trig

\* ------------------------------------------------------------------------
\* routers/admin.py::_reenrich_unenriched_jobs (the reconciliation sweep)
\* ------------------------------------------------------------------------
RECURSIVE CandidatesUpTo(_)
CandidatesUpTo(n) ==
    IF n = 0 THEN <<>>
    ELSE IF Unenriched(jobs[n])
         THEN Append(CandidatesUpTo(n - 1), [id |-> n, status |-> jobs[n].status])
         ELSE CandidatesUpTo(n - 1)

\* The candidate after the k-th, or the end of the sweep. (The pause between
\* batches of three is a sleep: it changes no state.)
SweepAt_StopsAfterFirst(rec, cands, k) ==
    [rec EXCEPT !.pc = "done", !.job_id = 0, !.job = NoJob, !.out = 0, !.emb = 0,
                !.before = NoEnrichment, !.en_trace = {}]

SweepAt(rec, cands, k) ==
    IF k > Len(cands)
    THEN [rec EXCEPT !.pc = "done", !.job_id = 0, !.job = NoJob, !.out = 0, !.emb = 0,
                     !.before = NoEnrichment, !.en_trace = {}]
    ELSE [rec EXCEPT !.pc = "en_get", !.job_id = cands[k].id, !.job = NoJob,
                     !.out = 0, !.emb = 0, !.en_failed = FALSE, !.before = NoEnrichment,
                     !.en_trace = {}]

\* The select over the jobs table and the filter; neither is inside a try.
SStart(p) ==
    /\ p = "r2"
    /\ st[p].pc = "idle"
    /\ \E ok \in BOOLEAN :
         IF ok
         THEN LET cands == CandidatesUpTo(Len(jobs))
              IN  /\ sw' = [cands |-> cands, k |-> 1, success |-> 0, failed |-> 0]
                  /\ st' = [st EXCEPT ![p] = SweepAt([@ EXCEPT !.kind = "sweep"], cands, 1)]
                  /\ UNCHANGED anyFailure
         ELSE /\ st' = [st EXCEPT ![p].pc = "raised", ![p].kind = "sweep"]
              /\ anyFailure' = TRUE
              /\ UNCHANGED sw
    /\ overlap' = (overlap \/ Running(Other(p)))
    /\ UNCHANGED <<upstream, jobs, logs, genSeq, embSeq, enrichFailedIn, sweepFailedIds,
                   dupRejected>>
    /\ UNCHANGED lockVars
    /\ UNCHANGED trig

\* After enrich_job returned: repair a 'processing' status, count the job.
SFix(p) ==
    /\ st[p].pc = "fix"
    /\ LET rec  == st[p]
           cand == sw.cands[sw.k]
       IN  \E ok \in BOOLEAN :
             IF cand.status = "processing" /\ ~ok
             THEN /\ sw' = [sw EXCEPT !.failed = @ + 1, !.k = @ + 1]
                  /\ sweepFailedIds' = sweepFailedIds \cup {cand.id}
                  /\ anyFailure' = TRUE
                  /\ UNCHANGED jobs
             ELSE /\ jobs' = IF cand.status = "processing"
                             THEN [jobs EXCEPT ![cand.id].status = "active"]
                             ELSE jobs
                  /\ sw' = [sw EXCEPT !.success = @ + 1, !.k = @ + 1]
                  /\ UNCHANGED <<sweepFailedIds, anyFailure>>
    /\ st' = [st EXCEPT ![p] = SweepAt(st[p], sw.cands, sw.k + 1)]
    /\ UNCHANGED <<upstream, logs, genSeq, embSeq, overlap, enrichFailedIn,
                   dupRejected>>
    /\ UNCHANGED lockVars
    /\ UNCHANGED trig

Ended(p) == st[p].pc \in {"done", "raised"}

\* ------------------------------------------------------------------------
\* routers/jobs.py::create_job and its background enrich_job;
\* trigger_scrape.py, step 1 (delete old jobs)
\* ------------------------------------------------------------------------
\* Request bodies of POST /jobs (description_raw has at least 20 characters).
JobBodies ==
    { [description_raw |-> "d1", skills_required |-> {}],
      [description_raw |-> "d1", skills_required |-> {"sql"}] }

\* JobService.create_job: the row a provider posts; the columns it does not
\* set are NULL and the status is the column's default.
PostedJobRow(body) ==
    [company_name           |-> Null,
     external_id            |-> Null,
     description_raw        |-> body.description_raw,
     description_hash       |-> Null,
     skills_required        |-> body.skills_required,
     resume_guide_generated |-> 0,
     prep_guide_generated   |-> 0,
     embedding              |-> 0,
     salary_range           |-> 0,
     status                 |-> "default",
     gen_calls              |-> 0]

\* POST /jobs: insert the row, queue enrich_job(job["id"]) as a background
\* task, answer 202.
PostJob(p) ==
    /\ st[p].pc = "idle"
    /\ \E body \in JobBodies, ok \in BOOLEAN :
         IF ok
         THEN /\ jobs' = Append(jobs, PostedJobRow(body))
              /\ st' = [st EXCEPT ![p].pc = "en_get", ![p].kind = "posted",
                                  ![p].job_id = Len(jobs) + 1, ![p].touched = TRUE]
              /\ UNCHANGED anyFailure
         ELSE /\ st' = [st EXCEPT ![p].pc = "raised", ![p].kind = "posted"]
              /\ anyFailure' = TRUE
              /\ UNCHANGED jobs
    /\ UNCHANGED <<upstream, logs, sw, genSeq, embSeq, overlap, enrichFailedIn,
                   sweepFailedIds, dupRejected>>
    /\ UNCHANGED lockVars
    /\ UNCHANGED trig

\* trigger_scrape.py: client.table("jobs").delete()... removes every row.
DeleteOldJobs ==
    /\ JobIds # {}
    /\ jobs' = [id \in DOMAIN jobs |-> [jobs[id] EXCEPT !.status = "deleted"]]
    /\ UNCHANGED <<upstream, logs, st, sw, genSeq, embSeq, overlap, anyFailure,
                   enrichFailedIn, sweepFailedIds, dupRejected>>
    /\ UNCHANGED lockVars
    /\ UNCHANGED trig

\* A record ingested and enriched by an earlier run of the source.
EarlierRecord ==
    [EnrichFields(NewJobRow([external_id |-> "e1", description_raw |-> "d1",
                             skills_required |-> {"sql"}], DescHash("d1")),
                  1, 1, {"sql"})
        EXCEPT !.status = "active", !.gen_calls = 1]

Init ==
    /\ LockInit
    /\ PipelineInit
    /\ jobs = <<>>
    /\ genSeq = 0
    /\ embSeq = 0
    /\ upstream \in Batches

\* A second run of the source starts when the first run has ended.
Next ==
    \/ IStart("r1")
    \/ Ended("r1") /\ IStart("r2")
    \/ \E p \in Procs : IFetch(p)
    \/ \E p \in Procs : IFind(p)
    \/ \E p \in Procs : ICreate(p)
    \/ \E p \in Procs : IDonor(p)
    \/ \E p \in Procs : IClone(p)
    \/ \E p \in Procs : IActivate(p)
    \/ \E p \in Procs : IFinalize(p)
    \/ \E p \in Procs : EGet(p)
    \/ \E p \in Procs : EAi(p)
    \/ \E p \in Procs : EUpdate(p)

Spec == Init /\ [][Next]_vars

\* The reconciliation sweep starts when the run of the source has ended.
SweepNext ==
    \/ IStart("r1")
    \/ Ended("r1") /\ SStart("r2")
    \/ IFetch("r1")
    \/ IFind("r1")
    \/ ICreate("r1")
    \/ IDonor("r1")
    \/ IClone("r1")
    \/ IActivate("r1")
    \/ IFinalize("r1")
    \/ \E p \in Procs : EGet(p)
    \/ \E p \in Procs : EAi(p)
    \/ \E p \in Procs : EUpdate(p)
    \/ SFix("r2")

SweepSpec == Init /\ [][SweepNext]_vars

\* The jobs table is empty or holds a record of an earlier run.
RaceInit ==
    /\ LockInit
    /\ PipelineInit
    /\ \/ jobs = <<>> /\ genSeq = 0 /\ embSeq = 0
       \/ jobs = <<EarlierRecord>> /\ genSeq = 1 /\ embSeq = 1
    /\ upstream \in RaceBatches

\* The two triggers start at any time.
RaceNext ==
    \/ \E p \in Procs : IStart(p)
    \/ \E p \in Procs : SStart(p)
    \/ \E p \in Procs : IFetch(p)
    \/ \E p \in Procs : IFind(p)
    \/ \E p \in Procs : ICreate(p)
    \/ \E p \in Procs : IDonor(p)
    \/ \E p \in Procs : IClone(p)
    \/ \E p \in Procs : IActivate(p)
    \/ \E p \in Procs : IFinalize(p)
    \/ \E p \in Procs : EGet(p)
    \/ \E p \in Procs : EAi(p)
    \/ \E p \in Procs : EUpdate(p)
    \/ \E p \in Procs : SFix(p)

RaceSpec == RaceInit /\ [][RaceNext]_vars

\* Providers post jobs, each post queues one enrich_job call, and the table
\* may be emptied in between.
EnrichNext ==
    \/ \E p \in Procs : PostJob(p)
    \/ DeleteOldJobs
    \/ \E p \in Procs : EGet(p)
    \/ \E p \in Procs : EAi(p)
    \/ \E p \in Procs : EUpdate(p)

EnrichSpec == RaceInit /\ [][EnrichNext]_vars

\* ------------------------------------------------------------------------
\* Administrative triggers (routers/admin.py, routers/ingestion.py) and
\* scheduler.trigger_ingestion
\* ------------------------------------------------------------------------
\* _SCRAPER_REGISTRY, by COMPANY_NAME, in registration order.
Registry == <<"Deloitte", "PwC", "KPMG", "EY">>

\* get_all_scrapers()
AllScrapers == SubSeq(Registry, 1, MaxSources)

\* COMPANY_NAME.lower()
Lower(name) ==
    CASE name = "Deloitte" -> "deloitte"
      [] name = "PwC" -> "pwc"
      [] name = "KPMG" -> "kpmg"
      [] name = "EY" -> "ey"
      [] OTHER -> name

Roles == {"admin", "seeker"}

\* Values of the scraper_name / source_name parameter.
SourceArgs == {Null, "all", "pwc", "nosuch"}

RECURSIVE SelectScrapers(_, _)
\* [s for s in all_scrapers if s.COMPANY_NAME.lower() == target]
SelectScrapers(all, target) ==
    IF all = <<>> THEN <<>>
    ELSE IF Lower(Head(all)) = target
         THEN <<Head(all)>> \o SelectScrapers(Tail(all), target)
         ELSE SelectScrapers(Tail(all), target)

\* trigger_ingestion: the scrapers selected by scraper_name.
ScrapersFor(arg) ==
    IF arg # Null /\ arg # "all" THEN SelectScrapers(AllScrapers, arg) ELSE AllScrapers

\* background_tasks.add_task(task, arg); return an acknowledgement.
Enqueued(endpoint, task, arg) ==
    [NoTrigger EXCEPT !.pc = "queued", !.endpoint = endpoint, !.task = task,
                      !.arg = arg, !.response = "ack"]

Refused(endpoint, code) ==
    [NoTrigger EXCEPT !.pc = "refused", !.endpoint = endpoint, !.response = code]

\* POST /admin/ingest/trigger (routers/admin.py)
trigger_manual_ingestion ==
    /\ trig.pc = "idle"
    /\ \E role \in Roles \cup {"provider"}, arg \in SourceArgs :
         trig' = IF role \notin {"admin", "provider"}
                 THEN Refused("trigger_manual_ingestion", "403")
                 ELSE Enqueued("trigger_manual_ingestion", "trigger_ingestion", arg)
    /\ UNCHANGED ingestVars
    /\ UNCHANGED lockVars

\* POST /admin/scrape-all (routers/admin.py)
scrape_all_sources ==
    /\ trig.pc = "idle"
    /\ trig' = Enqueued("scrape_all_sources", "trigger_ingestion", "all")
    /\ UNCHANGED ingestVars
    /\ UNCHANGED lockVars

\* POST /admin/ingest/all (routers/ingestion.py)
ingest_all_sources ==
    /\ trig.pc = "idle"
    /\ \E role \in Roles :
         trig' = IF role # "admin"
                 THEN Refused("ingest_all_sources", "403")
                 ELSE Enqueued("ingest_all_sources", "run_daily_ingestion", "all")
    /\ UNCHANGED ingestVars
    /\ UNCHANGED lockVars

\* POST /admin/ingest/{source_name} (routers/ingestion.py), up to the call
\* "stats = await svc.ingest_jobs(scraper)".
ingest_source ==
    /\ trig.pc = "idle"
    /\ \E role \in Roles, arg \in SourceArgs \ {Null} :
         LET found == SelectScrapers(Registry, arg)
         IN  IF role # "admin"
             THEN /\ trig' = Refused("ingest_source", "403")
                  /\ UNCHANGED st
             ELSE IF found = <<>>
             THEN /\ trig' = Refused("ingest_source", "404")
                  /\ UNCHANGED st
             ELSE /\ trig' = [NoTrigger EXCEPT !.pc = "ingesting",
                                               !.endpoint = "ingest_source",
                                               !.arg = arg, !.scrapers = found,
                                               !.n = 1, !.called = <<found[1]>>]
                  /\ st' = [st EXCEPT !["r1"] = [IdleProc EXCEPT !.source = found[1]]]
    /\ UNCHANGED <<upstream, jobs, logs, sw, genSeq, embSeq, overlap, anyFailure,
                   enrichFailedIn, sweepFailedIds, dupRejected>>
    /\ UNCHANGED lockVars

\* What the caller of ingest_jobs gets: the stats, the stats with an "error"
\* key after a failed fetch, or the exception.
IngestOutcome(rec) ==
    IF rec.pc = "raised" THEN "raised"
    ELSE IF rec.fetched_ok THEN "stats" ELSE "stats+error"

\* POST /admin/ingest/{source_name}: return {"source": ..., "result": stats}
ingest_source_responds ==
    /\ trig.endpoint = "ingest_source"
    /\ trig.pc = "ingesting"
    /\ Ended("r1")
    /\ trig' = [trig EXCEPT !.pc = "returned",
                            !.response = IF IngestOutcome(st["r1"]) = "raised"
                                         THEN "500" ELSE IngestOutcome(st["r1"])]
    /\ UNCHANGED ingestVars
    /\ UNCHANGED lockVars

\* The queued task starts: trigger_ingestion up to the loop over the scrapers.
\* Queued as run_daily_ingestion it starts once the worker has the lock.
TriggerStart ==
    /\ trig.pc = "queued"
    /\ (trig.task = "run_daily_ingestion") => wpc["A"] = "sweep"
    /\ LET scrapers == ScrapersFor(trig.arg)
       IN  trig' = IF scrapers = <<>>
                   THEN [trig EXCEPT !.pc = "returned", !.results = <<[source |-> Null, entry |-> "not found"]>>]
                   ELSE [trig EXCEPT !.pc = "loop", !.scrapers = scrapers, !.n = 1]
    /\ UNCHANGED ingestVars
    /\ UNCHANGED lockVars

\* for scraper in scrapers: ... stats = await service.ingest_jobs(scraper)
TriggerCallsIngest ==
    /\ trig.pc = "loop"
    /\ trig.n <= Len(trig.scrapers)
    /\ trig' = [trig EXCEPT !.pc = "ingesting",
                            !.called = Append(@, trig.scrapers[trig.n])]
    /\ st' = [st EXCEPT !["r1"] = [IdleProc EXCEPT !.source = trig.scrapers[trig.n]]]
    /\ UNCHANGED <<upstream, jobs, logs, sw, genSeq, embSeq, overlap, anyFailure,
                   enrichFailedIn, sweepFailedIds, dupRejected>>
    /\ UNCHANGED lockVars

\* The scraper run after this one; "except Exception" records the error and
\* the loop goes on.
NextSource_AbortOnError(n, len, outcome) == IF outcome = "raised" THEN len + 1 ELSE n + 1

NextSource(n, len, outcome) == n + 1

\* results[source_name] = stats, or {"error": str(e)} in the except clause
ResultEntry(name, outcome) ==
    [source |-> Lower(name), entry |-> IF outcome = "raised" THEN "error" ELSE outcome]

\* trigger_ingestion after "await service.ingest_jobs(scraper)": the try block
\* and its "except Exception" both fall through to the next iteration.
AfterIngest_Propagates(outcome) == IF outcome = "raised" THEN "raised" ELSE "loop"

AfterIngest(outcome) == "loop"

TriggerIngestEnds ==
    /\ trig.endpoint # "ingest_source"
    /\ trig.pc = "ingesting"
    /\ Ended("r1")
    /\ LET outcome == IngestOutcome(st["r1"])
       IN  trig' = [trig EXCEPT !.pc = AfterIngest(outcome),
                                !.results = Append(@, ResultEntry(trig.scrapers[trig.n], outcome)),
                                !.n = NextSource(trig.n, Len(trig.scrapers), outcome)]
    /\ UNCHANGED ingestVars
    /\ UNCHANGED lockVars

\* return results
TriggerReturns ==
    /\ trig.pc = "loop"
    /\ trig.n > Len(trig.scrapers)
    /\ trig' = [trig EXCEPT !.pc = "returned"]
    /\ UNCHANGED ingestVars
    /\ UNCHANGED lockVars

TriggerInit ==
    /\ LockInit
    /\ PipelineInit
    /\ jobs = <<>>
    /\ genSeq = 0
    /\ embSeq = 0
    /\ upstream \in SourceListings

\* One request; its task runs ingest_jobs (as trigger "r1") once per scraper.
\* run_daily_ingestion is run by worker "A".
TriggerNext ==
    \/ trigger_manual_ingestion
    \/ scrape_all_sources
    \/ ingest_all_sources
    \/ ingest_source
    \/ ingest_source_responds
    \/ trig.pc = "queued" /\ trig.task = "run_daily_ingestion" /\ Acquire("A")
    \/ TriggerStart
    \/ TriggerCallsIngest
    \/ trig.pc = "ingesting" /\ IStart("r1")
    \/ IFetch("r1")
    \/ IFind("r1")
    \/ ICreate("r1")
    \/ IDonor("r1")
    \/ IClone("r1")
    \/ IActivate("r1")
    \/ IFinalize("r1")
    \/ EGet("r1")
    \/ EAi("r1")
    \/ EUpdate("r1")
    \/ TriggerIngestEnds
    \/ TriggerReturns
    \/ trig.pc = "returned" /\ SweepEnds("A")
    \/ Release("A")

TriggerSpec == TriggerInit /\ [][TriggerNext]_vars

InitLock ==
    /\ LockInit
    /\ PipelineInit
    /\ jobs = <<>>
    /\ genSeq = 0
    /\ embSeq = 0
    /\ upstream = <<>>

NextLock ==
    \/ \E w \in Workers : Acquire(w)
    \/ \E w \in Workers : SweepEnds(w)
    \/ \E w \in Workers : Crash(w)
    \/ \E w \in Workers : Release(w)
    \/ Tick

LockSpec == InitLock /\ [][NextLock]_vars

\* ------------------------------------------------------------------------
\* Properties of the cron lock (checked under LockSpec)
\* ------------------------------------------------------------------------
InSweep == {w \in Workers : wpc[w] = "sweep"}

\* C1 -- Lock mutual exclusion. Among the workers whose acquire calls reach
\* the lock store at the same instant, with no release in between, exactly
\* one is answered true when the row was absent or expired at the first
\* call, and none is answered true when the row was held and unexpired.
C1_LockMutualExclusion ==
    roundCallers # {} =>
        IF roundFree THEN Cardinality(roundWinners) = 1 ELSE roundWinners = {}

\* All workers raced on a free lock and exactly one of them won.
C1_Witness_AllRaceOneWins ==
    /\ roundCallers = Workers
    /\ roundFree
    /\ Cardinality(roundWinners) = 1

\* C2 (as claimed) -- Single executor: at no moment are two workers both
\* inside the sweep started by run_daily_ingestion.
C2_SingleExecutorAlways == Cardinality(InSweep) <= 1

\* C2 (amended) -- Single executor under normal operation: as long as every
\* acquire call has reached the lock store (no fail-open) and no run (sweep
\* and release) has outlasted the TTL, at most one worker is inside the sweep.
C2_SingleExecutorNormalOperation == ~unsafeRun => Cardinality(InSweep) <= 1

\* A worker was just turned away by the store while another one is sweeping.
C2_Witness_TurnedAwayWhileSweeping ==
    /\ ~unsafeRun
    /\ lastCall.w # Null
    /\ lastCall.storeOk
    /\ ~lastCall.res
    /\ \E v \in Workers : v # lastCall.w /\ wpc[v] = "sweep"

\* C3 -- TTL recovery. After a worker acquired the lock at T0 and did not
\* release it, an acquire by another worker that reaches the store returns
\* false up to T0 + 30 minutes and true after T0 + 30 minutes; and a row
\* whose locked_until is in the past is acquirable by any worker.
C3_TTLRecovery ==
    (lastCall.w # Null /\ lastCall.storeOk) =>
        /\ (lastCall.prevHolder.w # Null /\ lastCall.prevHolder.w # lastCall.w) =>
               (lastCall.res <=> lastCall.at > lastCall.prevHolder.t0 + 30)
        /\ (lastCall.prevRow.exists /\ lastCall.prevRow.locked_until < lastCall.at) =>
               lastCall.res

\* The holder crashed in its sweep and another worker acquired after the TTL.
C3_Witness_AcquiredAfterCrashAndTTL ==
    /\ lastCall.w # Null
    /\ lastCall.storeOk
    /\ lastCall.res
    /\ lastCall.prevHolder.w # Null
    /\ lastCall.prevHolder.w # lastCall.w
    /\ wpc[lastCall.prevHolder.w] = "crashed"
    /\ lastCall.at > lastCall.prevHolder.t0 + 30

\* C16 -- Fail-open. When the lock store call raises, _acquire_cron_lock
\* returns true and the calling worker proceeds with the run, whatever the
\* state of the lock row.
C16_FailOpen ==
    (lastCall.w # Null /\ ~lastCall.storeOk) =>
        /\ lastCall.res
        /\ wpc[lastCall.w] = "sweep"
        /\ lockRow = lastCall.prevRow

\* The store call of a worker raised while another worker held the unexpired
\* lock and was sweeping: both are in the sweep.
C16_Witness_ProceedsWhileLockHeld ==
    /\ lastCall.w # Null
    /\ ~lastCall.storeOk
    /\ lastCall.res
    /\ ~LockFree(lockRow, now)
    /\ holder.w # Null
    /\ holder.w # lastCall.w
    /\ wpc[holder.w] = "sweep"
    /\ wpc[lastCall.w] = "sweep"

\* C17 -- Release is unconditional, idempotent and best-effort. Every release
\* step, by the holder or not, ends with the worker back at idle (nothing is
\* raised); the row is either untouched (the store call failed) or set to the
\* past instant, after which an acquire at the same instant is answered true;
\* and releasing the released row again changes nothing.
C17_ReleaseUnconditional ==
    [][\A w \in Workers :
          (wpc[w] = "release" /\ wpc'[w] # "release") =>
              LET once == ReleasedRow(lockRow, TRUE)
              IN  /\ wpc'[w] = "idle"
                  /\ lockRow' \in {lockRow, once}
                  /\ ReleasedRow(lockRow, FALSE) = lockRow
                  /\ once.exists => once.locked_until < now
                  /\ acquire_cron_lock_rpc(once, now, _LOCK_TTL_MINUTES).data
                  /\ ReleasedRow(once, TRUE) = once]_vars

\* The row was released to the past instant while a worker that did not
\* release it is still sweeping.
C17_Witness_ReleasedUnderASweeper ==
    /\ lockRow.exists
    /\ lockRow.locked_until = FarPast
    /\ holder = NoHolder
    /\ \E w \in Workers : wpc[w] = "sweep"
    /\ \E w \in Workers : wpc[w] = "idle"

\* ------------------------------------------------------------------------
\* Properties of the pipeline (checked under Spec; C7 under RaceSpec,
\* C9 under SweepSpec)
\* ------------------------------------------------------------------------
\* The loop of the run is over (the run returned, or raised in the final log write).
LoopOver(p) ==
    /\ st[p].kind = "ingest"
    /\ st[p].fetched_ok
    /\ st[p].pc \in {"finalize", "done", "raised"}

Counted(stats) == stats.new + stats.skipped + stats.errors

\* C4 -- Count partition. In a run whose fetch succeeded every posting handled
\* so far is counted in exactly one of new, skipped, errors; when the loop is
\* over new + skipped + errors equals the number of fetched postings, and
\* dedup_hits never exceeds new.
C4_CountPartition ==
    \A p \in Procs :
        (st[p].kind = "ingest" /\ st[p].fetched_ok) =>
            /\ st[p].stats.fetched = Len(st[p].raw_jobs)
            /\ st[p].stats.dedup_hits <= st[p].stats.new
            /\ IF LoopOver(p)
               THEN Counted(st[p].stats) = st[p].stats.fetched
               ELSE Counted(st[p].stats) = st[p].i - 1

\* A run of two postings ended with one of them new and the other an error.
C4_Witness_NewAndError ==
    \E p \in Procs :
        /\ LoopOver(p)
        /\ st[p].pc = "done"
        /\ st[p].stats.fetched = 2
        /\ st[p].stats.new = 1
        /\ st[p].stats.errors = 1

\* Two ingest runs of the same source, one after the other, both returned
\* after a successful fetch of the same postings.
TwoRunsInSequence ==
    \A p \in Procs : st[p].kind = "ingest" /\ st[p].pc = "done" /\ st[p].fetched_ok

FirstRun == st["r1"].stats

SecondRun == st["r2"].stats

\* C5 (as claimed) -- Idempotence: the second of two runs in sequence over
\* the same postings reports new = 0 and skipped = the first run's new.
C5_RerunSkipsPreviousNew ==
    TwoRunsInSequence =>
        /\ SecondRun.new = 0
        /\ SecondRun.skipped = FirstRun.new

\* C5 (amended) -- Idempotence: when neither run counted an error, the second
\* run reports new = 0 and skips every posting: skipped = the first run's
\* new + skipped (the number of fetched postings).
C5_RerunSkipsEverything ==
    (TwoRunsInSequence /\ FirstRun.errors = 0 /\ SecondRun.errors = 0) =>
        /\ SecondRun.new = 0
        /\ SecondRun.skipped = FirstRun.new + FirstRun.skipped
        /\ SecondRun.skipped = SecondRun.fetched

\* The first run ingested two new postings and the second run skipped both.
C5_Witness_SecondRunSkipsBoth ==
    /\ TwoRunsInSequence
    /\ FirstRun.errors = 0
    /\ SecondRun.errors = 0
    /\ FirstRun.new = 2
    /\ SecondRun.skipped = 2
    /\ SecondRun.new = 0

\* The record is still being processed by a running trigger.
InFlight(id) == \E p \in Procs : Running(p) /\ (st[p].created = id \/ st[p].job_id = id)

SameContent(a) ==
    {b \in JobIds : jobs[b].description_hash = jobs[a].description_hash}

RECURSIVE GenCallsOf(_)
GenCallsOf(S) ==
    IF S = {} THEN 0
    ELSE LET x == CHOOSE y \in S : TRUE
         IN  jobs[x].gen_calls + GenCallsOf(S \ {x})

C7_IdentityUnique ==
    \A a, b \in JobIds :
        (a # b) =>
            ~(/\ jobs[a].company_name = jobs[b].company_name
              /\ jobs[a].external_id = jobs[b].external_id)

\* Two interleaved runs both passed the identity lookup for one key and the
\* store rejected the second insert.
C7_Witness_SecondInsertRejected ==
    /\ overlap
    /\ dupRejected
    /\ \A p \in Procs : st[p].kind = "ingest"
    /\ \E p \in Procs : st[p].stats.errors >= 1
    /\ Len(jobs) >= 1

\* C8 (as claimed) -- A record whose enrich_job call failed inside ingest_jobs
\* still has status processing when the runs have ended (no sweep involved).
C8_FailedEnrichmentStaysProcessing ==
    (/\ \A p \in Procs : st[p].kind # "sweep"
     /\ \A p \in Procs : ~Running(p)) =>
        \A id \in enrichFailedIn : jobs[id].status = "processing"

AllMissing(row) ==
    /\ row.resume_guide_generated = 0
    /\ row.prep_guide_generated = 0
    /\ row.embedding = 0

\* C9 (as claimed) -- Reconciliation completeness: when a sweep that started
\* after the ingest run had ended has completed, every record with guide,
\* questions and embedding all missing was counted in the sweep's failed
\* counter.
C9_SweepCountsEveryUnhealedRecord ==
    (st["r2"].kind = "sweep" /\ st["r2"].pc = "done") =>
        \A id \in JobIds : AllMissing(jobs[id]) => id \in sweepFailedIds

\* C10 -- Bulkhead isolation. In a run whose fetch succeeded every posting
\* whose processing raised added exactly one to the error counter, and when
\* the loop is over every posting of the batch has entered processing.
C10_Bulkhead ==
    \A p \in Procs :
        (st[p].kind = "ingest" /\ st[p].fetched_ok) =>
            /\ st[p].stats.errors = st[p].raised
            /\ LoopOver(p) => st[p].handled = Len(st[p].raw_jobs)

\* The first posting of a batch was malformed (an error) and the second one
\* was still ingested.
C10_Witness_ErrorThenNew ==
    \E p \in Procs :
        /\ LoopOver(p)
        /\ Len(st[p].raw_jobs) = 2
        /\ st[p].raw_jobs[1].description_raw = BadDesc
        /\ st[p].stats.errors = 1
        /\ st[p].stats.skipped = 0
        /\ st[p].stats.new = 1

\* ------------------------------------------------------------------------
\* The run log of ingest_jobs (checked under Spec)
\* ------------------------------------------------------------------------
\* The run's fetch raised: the log was created and the run ended without a batch.
FetchFailed(p) ==
    /\ st[p].kind = "ingest"
    /\ Ended(p)
    /\ st[p].log_id # 0
    /\ ~st[p].fetched_ok

\* What ingest_jobs returned: the stats, or the stats with an "error" key.
Returned(rec) ==
    IF rec.pc # "done" THEN "nothing"
    ELSE IF rec.fetched_ok THEN "stats" ELSE "stats+error"

LogOf(p) == logs[st[p].log_id]

\* C11 (as claimed) -- Fetch failure is fail-fast: whenever the fetch raised,
\* the run's log is failed with error_message and traceback, ingest_jobs
\* returned a stats object without raising, and the run wrote no job record.
C11_FetchFailFastAlways ==
    \A p \in Procs :
        FetchFailed(p) =>
            /\ LogOf(p).status = "failed"
            /\ LogOf(p).error_message
            /\ LogOf(p).traceback
            /\ Returned(st[p]) = "stats+error"
            /\ ~st[p].touched

\* C11 (amended) -- Whenever the fetch raised the run wrote no job record and
\* counted nothing; if the update of the run log succeeded, the log is failed
\* with error_message and traceback and ingest_jobs returned the (all zero)
\* stats with the error; if that update raised as well, the exception left
\* ingest_jobs and the log stays at running.
C11_FetchFailFast ==
    \A p \in Procs :
        FetchFailed(p) =>
            /\ ~st[p].touched
            /\ st[p].stats = NoStats
            /\ st[p].handled = 0
            /\ IF LogOf(p).updates = 1
               THEN /\ LogOf(p).status = "failed"
                    /\ LogOf(p).error_message
                    /\ LogOf(p).traceback
                    /\ Returned(st[p]) = "stats+error"
               ELSE /\ LogOf(p).status = "running"
                    /\ st[p].pc = "raised"

\* The second run's fetch failed after the first run had stored a record: the
\* log is failed, the stats came back and the table is as the first run left it.
C11_Witness_FetchFailedNothingTouched ==
    /\ FetchFailed("r2")
    /\ Returned(st["r2"]) = "stats+error"
    /\ LogOf("r2").status = "failed"
    /\ LogOf("r2").traceback
    /\ Len(jobs) >= 1
    /\ st["r1"].touched

TerminalStatus == {"success", "partial", "failed"}

\* C12 (as claimed) -- RunLog lifecycle: every run that ended created its log,
\* updated it exactly once to a terminal status, and did not leave it running.
C12_LogLifecycleAlways ==
    \A p \in Procs :
        (st[p].kind = "ingest" /\ Ended(p)) =>
            /\ st[p].log_id # 0
            /\ LogOf(p).status \in TerminalStatus
            /\ LogOf(p).updates = 1

\* C12 (amended) -- RunLog lifecycle: a run is past its first step only with
\* its log inserted (status running, before the fetch); a log is written at
\* most once after its insert, and it is terminal exactly when it was written;
\* a run that returned left its log terminal; a run that raised either never
\* inserted its log or left it at running (the log update itself raised).
C12_LogLifecycle ==
    /\ \A id \in 1..Len(logs) :
         /\ logs[id].updates <= 1
         /\ (logs[id].updates = 0) <=> (logs[id].status = "running")
         /\ (logs[id].updates = 1) <=> (logs[id].status \in TerminalStatus)
    /\ \A p \in Procs :
         (st[p].kind = "ingest") =>
            /\ (st[p].pc # "raised") => st[p].log_id # 0
            /\ Running(p) => LogOf(p).status = "running"
            /\ (st[p].pc = "done") => LogOf(p).status \in TerminalStatus
            /\ (st[p].pc = "raised" /\ st[p].log_id # 0) => LogOf(p).status = "running"
    /\ \A p, q \in Procs :
         (p # q /\ st[p].log_id # 0) => st[p].log_id # st[q].log_id

\* Both runs returned; each has its own log, written once, one after a failed
\* fetch and one after the loop.
C12_Witness_TwoLogsWrittenOnce ==
    /\ \A p \in Procs : st[p].kind = "ingest" /\ st[p].pc = "done"
    /\ Len(logs) = 2
    /\ \A id \in 1..2 : logs[id].updates = 1
    /\ ~st["r1"].fetched_ok
    /\ st["r2"].fetched_ok

\* C13 -- Derived terminal status. For every run whose fetch succeeded and
\* that returned, the log's status is failed when errors > 0 and new = 0,
\* partial when errors > 0 and new > 0 and success otherwise, and jobs_found,
\* jobs_new, jobs_skipped, error_count equal the returned fetched, new,
\* skipped, errors.
C13_DerivedStatus ==
    \A p \in Procs :
        (st[p].kind = "ingest" /\ st[p].pc = "done" /\ st[p].fetched_ok) =>
            LET log   == LogOf(p)
                stats == st[p].stats
            IN  /\ (stats.errors > 0 /\ stats.new = 0) => log.status = "failed"
                /\ (stats.errors > 0 /\ stats.new > 0) => log.status = "partial"
                /\ (stats.errors = 0) => log.status = "success"
                /\ log.jobs_found = stats.fetched
                /\ log.jobs_new = stats.new
                /\ log.jobs_skipped = stats.skipped
                /\ log.error_count = stats.errors
                /\ ~log.error_message

\* One run ended partial (one new, one error), the other failed (errors only).
C13_Witness_PartialAndFailed ==
    /\ \A p \in Procs : st[p].kind = "ingest" /\ st[p].pc = "done" /\ st[p].fetched_ok
    /\ LogOf("r1").status = "partial"
    /\ LogOf("r1").jobs_new = 1
    /\ LogOf("r1").error_count = 1
    /\ LogOf("r2").status = "failed"
    /\ LogOf("r2").error_count >= 1

\* ------------------------------------------------------------------------
\* Properties of enrich_job (C14 checked under SweepSpec, C15 under EnrichSpec)
\* ------------------------------------------------------------------------
\* enrich_job has been called for the record and has not been forgotten yet.
InEnrichCall(p) == st[p].en_trace # {} /\ st[p].job_id \in JobIds

\* The values the call of enrich_job writes.
ValuesOfCall(rec) ==
    [resume_guide_generated |-> rec.out,
     prep_guide_generated   |-> rec.out,
     skills_required        |-> IF rec.job.skills_required # {}
                                THEN rec.job.skills_required ELSE {"ai-skill"},
     embedding              |-> rec.emb,
     salary_range           |-> rec.out]

\* C14 -- Atomic enrichment write. During and after any call of enrich_job,
\* whether it succeeds or fails at any step, the record's resume guide, prep
\* questions, skills, embedding and salary are all the values of that call
\* (once its update has been written) or all as they were before the call.
C14_AtomicEnrichmentWrite ==
    \A p \in Procs :
        InEnrichCall(p) =>
            LET cols == EnrichmentOf(jobs[st[p].job_id])
            IN  IF "written" \in st[p].en_trace
                THEN /\ cols = ValuesOfCall(st[p])
                     /\ cols.resume_guide_generated # 0
                     /\ cols.embedding # 0
                     /\ ~st[p].en_failed
                ELSE cols = st[p].before

\* The sweep's enrich_job call reached update_job, the write raised, the call
\* has returned, and the record's columns are as before the call.
C14_Witness_UpdateFailedNothingWritten ==
    /\ st["r2"].kind = "sweep"
    /\ st["r2"].pc = "fix"
    /\ "update_job" \in st["r2"].en_trace
    /\ "written" \notin st["r2"].en_trace
    /\ st["r2"].out # 0
    /\ EnrichmentOf(jobs[st["r2"].job_id]) = st["r2"].before
    /\ st["r2"].before.embedding = 0

\* C15 -- enrich_job never raises to its caller: a failure of get_job, of the
\* generation call, of the embedding call or of update_job ends the call by a
\* normal return; and when the record is absent the call returns after
\* get_job without calling generation or embedding and without a write.
C15_EnrichNeverRaises ==
    \A p \in Procs :
        /\ (st[p].pc = "raised") => st[p].en_trace = {}
        /\ (st[p].en_failed /\ st[p].en_trace # {}) => st[p].pc = ReturnPc(st[p])
        /\ ("not_found" \in st[p].en_trace) =>
              /\ st[p].en_trace = {"get_job", "not_found"}
              /\ st[p].pc = ReturnPc(st[p])
              /\ st[p].out = 0
              /\ st[p].emb = 0

\* One call returned because its record had been deleted, the other returned
\* after its update_job raised.
C15_Witness_AbsentAndFailedReturn ==
    /\ \A p \in Procs : st[p].kind = "posted" /\ st[p].pc = "done" /\ st[p].en_failed
    /\ "not_found" \in st["r1"].en_trace
    /\ "update_job" \in st["r2"].en_trace

\* ------------------------------------------------------------------------
\* The reconciliation sweep (checked under SweepSpec)
\* ------------------------------------------------------------------------
Sweeping == st["r2"].kind = "sweep"

\* Ids of the records with the resume guide, the prep questions or the
\* embedding missing.
MissingAny ==
    {id \in JobIds : \/ jobs[id].resume_guide_generated = 0
                     \/ jobs[id].prep_guide_generated = 0
                     \/ jobs[id].embedding = 0}

SelectedIds(cands) == {cands[n].id : n \in 1..Len(cands)}

\* Steps of the sweep still to be taken decrease this number.
SweepPcRank(pc) ==
    CASE pc = "en_get" -> 0
      [] pc = "en_ai" -> 1
      [] pc = "en_update" -> 2
      [] pc = "fix" -> 3
      [] OTHER -> 0

SweepProgress == 4 * sw.k + SweepPcRank(st["r2"].pc)

\* The sweep has selected its candidates and is processing them or is done.
SweepSelected == Sweeping /\ st["r2"].pc # "raised"

\* C18 (as claimed) -- The reconciliation sweep always completes: no sweep
\* ends by an exception.
C18_SweepNeverRaises == Sweeping => st["r2"].pc # "raised"

\* C18 (amended) -- Once its select of the jobs table has succeeded the sweep
\* always completes: it selected exactly the records where resume guide, prep
\* questions or embedding was missing, each once; it handles them in order,
\* one enrich_job call per record, whatever happened to the records before;
\* every step moves it forward; and it ends with success + failed equal to the
\* number of selected records.
C18_SweepCompletes ==
    /\ [](SweepSelected =>
            /\ sw.k \in 1..(Len(sw.cands) + 1)
            /\ sw.success + sw.failed = sw.k - 1
            /\ Cardinality(SelectedIds(sw.cands)) = Len(sw.cands)
            /\ IF st["r2"].pc = "done"
               THEN /\ sw.k = Len(sw.cands) + 1
                    /\ sw.success + sw.failed = Len(sw.cands)
               ELSE /\ st["r2"].pc \in {"en_get", "en_ai", "en_update", "fix"}
                    /\ sw.k <= Len(sw.cands)
                    /\ st["r2"].job_id = sw.cands[sw.k].id
                    /\ (st["r2"].pc = "fix") => "get_job" \in st["r2"].en_trace)
    /\ [][/\ (~Sweeping /\ SweepSelected') => SelectedIds(sw'.cands) = MissingAny
          /\ (SweepSelected /\ st'["r2"] # st["r2"]) =>
                /\ SweepSelected'
                /\ sw'.cands = sw.cands
                /\ SweepProgress' > SweepProgress
                /\ SweepProgress' <= 4 * (Len(sw.cands) + 1)]_vars

\* A sweep over two selected records counted the first as failed (its status
\* repair raised) and still handled the second: one failed, one success.
C18_Witness_FailedThenSuccess ==
    /\ Sweeping
    /\ st["r2"].pc = "done"
    /\ Len(sw.cands) = 2
    /\ sw.failed = 1
    /\ sw.success = 1
    /\ sw.cands[1].id \in sweepFailedIds

\* ------------------------------------------------------------------------
\* Properties of the triggers (checked under TriggerSpec)
\* ------------------------------------------------------------------------
\* C19 (as claimed) -- Fire-and-forget: every accepted administrative trigger
\* answers with an acknowledgement, given before the pipeline has run, and no
\* response carries the pipeline's stats.
C19_FireAndForget ==
    /\ (trig.response \notin {Null, "403", "404"}) =>
          /\ trig.response = "ack"
          /\ trig.task # Null
    /\ (trig.endpoint # Null /\ trig.response = Null) => trig.called = <<>>

\* trigger_ingestion was queued for all scrapers and has returned.
SweepOfAllReturned ==
    /\ trig.task = "trigger_ingestion"
    /\ trig.pc = "returned"
    /\ trig.scrapers = AllScrapers

\* C20 -- Source isolation. In a sweep of trigger_ingestion over several
\* sources, whatever a source's run does (its fetch raises, or ingest_jobs
\* itself raises), ingest_jobs is called for every selected scraper in order
\* and, when the sweep returns, results holds one entry per selected scraper.
C20_SourceIsolation ==
    (trig.task # Null /\ trig.pc \in {"loop", "ingesting", "returned"}
        /\ trig.scrapers # <<>>) =>
        /\ trig.called = SubSeq(trig.scrapers, 1, Len(trig.called))
        /\ Len(trig.results) = (IF trig.pc = "ingesting" THEN Len(trig.called) - 1
                                ELSE Len(trig.called))
        /\ \A n \in 1..Len(trig.results) :
              trig.results[n].source = Lower(trig.scrapers[n])
        /\ (trig.pc = "returned") =>
              /\ trig.called = trig.scrapers
              /\ Len(trig.results) = Len(trig.scrapers)

\* The first source's ingest_jobs raised, the second source's fetch failed,
\* and the sweep returned an entry for both.
C20_Witness_ErrorThenNextSourceRun ==
    /\ SweepOfAllReturned
    /\ Len(trig.scrapers) >= 2
    /\ trig.results[1].entry = "error"
    /\ trig.results[2].entry = "stats+error"

\* The queued task is trigger_ingestion or run_daily_ingestion.
TaskQueued == trig.task # Null

ResultEntries == {"stats", "stats+error", "error", "not found"}

\* C21 -- No failure crosses the scheduling/trigger boundary. Whatever fails
\* (the lock store on acquire or release, a run-log write, the fetch, a
\* posting, an enrichment), the queued trigger_ingestion / run_daily_ingestion
\* is never ended by an exception: a run of ingest_jobs that raised becomes an
\* "error" entry of results and the task goes on; the task ends by returning,
\* with every entry of results a stats object or an error entry.
C21_NoFailureCrossesBoundary ==
    TaskQueued =>
        /\ trig.pc \in {"queued", "loop", "ingesting", "returned"}
        /\ wpc["A"] \in {"idle", "sweep", "release"}
        /\ \A n \in 1..Len(trig.results) : trig.results[n].entry \in ResultEntries
        /\ (trig.pc = "loop" /\ st["r1"].pc = "raised") =>
              trig.results[Len(trig.results)].entry = "error"
        /\ (trig.pc = "returned" /\ trig.scrapers # <<>>) =>
              Len(trig.results) = Len(trig.scrapers)

\* run_daily_ingestion ran with the lock store down at acquire; the first
\* source's ingest_jobs raised, the second source's run returned stats after
\* an enrichment failure; the task returned and the worker is back at idle.
C21_Witness_FailuresEverywhereTaskReturned ==
    /\ trig.task = "run_daily_ingestion"
    /\ trig.pc = "returned"
    /\ unsafeRun
    /\ wpc["A"] = "idle"
    /\ Len(trig.results) = 2
    /\ trig.results[1].entry = "error"
    /\ trig.results[2].entry = "stats"
    /\ enrichFailedIn # {}

\* ------------------------------------------------------------------------
\* Generation calls of a run (checked under Spec)
\* ------------------------------------------------------------------------
\* The run fetched its batch, finished the loop and returned.
RunReturned(p) == st[p].kind = "ingest" /\ st[p].pc = "done" /\ st[p].fetched_ok

C23_EveryTriggerLocks ==
    (trig.pc = "ingesting") => wpc["A"] = "sweep"

\* ------------------------------------------------------------------------
\* Release of the cron lock at the end of a run (checked under LockSpec)
\* ------------------------------------------------------------------------
\* C24 (as claimed) -- The lock is always released after a scheduled run:
\* with every worker back at idle (no run in progress, none crashed) the lock
\* is free, so the next scheduled run can acquire it without waiting for the
\* TTL.
C24_LockFreeAfterEveryRun ==
    (\A w \in Workers : wpc[w] = "idle") => LockFree(lockRow, now)

\* C24 (amended) -- Release is always invoked after a scheduled run: a worker
\* leaves the sweep only into the release step (or by the death of its
\* process) and is back at idle only through the release step. When the
\* release's store call succeeds the row is expired, and an acquire that
\* reaches the store while no granted lock is unreleased is answered true
\* without waiting for the TTL; when the store call fails the row is left as
\* it was, held until its TTL.
C24_ReleaseAlwaysInvoked ==
    /\ []((lastCall.w # Null /\ lastCall.storeOk /\ lastCall.prevHolder = NoHolder)
             => lastCall.res)
    /\ [][\A w \in Workers :
            /\ (wpc[w] = "sweep" /\ wpc'[w] # "sweep") =>
                  /\ wpc'[w] \in {"release", "crashed"}
                  /\ lockRow' = lockRow
            /\ (wpc[w] # "idle" /\ wpc'[w] = "idle") =>
                  /\ wpc[w] = "release"
                  /\ lockRow' = lockRow \/ LockFree(lockRow', now)
            /\ (wpc[w] = "release" /\ wpc'[w] = "idle" /\ holder.w = w
                  /\ holder' = NoHolder) =>
                  acquire_cron_lock_rpc(lockRow', now, _LOCK_TTL_MINUTES).data]_vars

\* A run acquired the lock within the TTL of the previous run's acquire,
\* because that run had released it.
C24_Witness_NextRunAcquiresWithinTTL ==
    /\ lastCall.w # Null
    /\ lastCall.storeOk
    /\ lastCall.res
    /\ lastCall.prevHolder = NoHolder
    /\ lastCall.prevRow.exists
    /\ lastCall.prevRow.locked_until = FarPast
    /\ lastCall.at <= _LOCK_TTL_MINUTES
    /\ ~unsafeRun

\* ------------------------------------------------------------------------
\* Identity dedup within one run (checked under Spec)
\* ------------------------------------------------------------------------
\* The batch of the run holds some identity key twice.
DupInBatch(p) ==
    \E a, b \in 1..Len(st[p].raw_jobs) :
        a < b /\ st[p].raw_jobs[a].external_id = st[p].raw_jobs[b].external_id

DistinctKeys(raw_jobs) ==
    Cardinality({raw_jobs[n].external_id : n \in 1..Len(raw_jobs)})

\* C25 (as claimed) -- Serial identity dedup: when the fetched batch holds the
\* same identity key twice, the later occurrence is counted as skipped.
C25_LaterOccurrenceSkipped ==
    \A p \in Procs :
        (LoopOver(p) /\ DupInBatch(p)) => st[p].stats.skipped >= 1

\* C25 (amended) -- Serial identity dedup within one run. A posting whose
\* (company_name, external_id) already has a JobRecord when it is looked up
\* is counted as skipped (as an error if the lookup itself raises) with no
\* insert, no update and no generation or embedding call, and nothing else is
\* counted as skipped. So at most one JobRecord exists per identity key, a
\* run counts at most one new posting per distinct key of its batch, and in a
\* run without errors every further occurrence of a key is counted as skipped;
\* a later occurrence is processed as new only when every earlier one failed
\* before its insert.
C25_SerialIdentityDedup ==
    /\ [](\A p \in Procs :
            (st[p].kind = "ingest" /\ st[p].fetched_ok) =>
                /\ \A n \in 1..Len(st[p].raw_jobs) :
                      Cardinality(find_job_by_external_id(st[p].source,
                                      st[p].raw_jobs[n].external_id)) <= 1
                /\ st[p].stats.new <= DistinctKeys(st[p].raw_jobs)
                /\ (LoopOver(p) /\ st[p].stats.errors = 0) =>
                      st[p].stats.skipped >=
                          Len(st[p].raw_jobs) - DistinctKeys(st[p].raw_jobs))
    /\ [][\A p \in Procs :
            (st[p].pc = "find" /\ st'[p] # st[p]) =>
                LET job_data == st[p].raw_jobs[st[p].i]
                    exists   == find_job_by_external_id(st[p].source,
                                                        job_data.external_id) # {}
                IN  /\ exists =>
                          /\ st'[p].stats \in {CountSkipped(st[p].stats),
                                               CountError(st[p].stats)}
                          /\ st'[p].i = st[p].i + 1
                          /\ st'[p].gen_invoked = st[p].gen_invoked
                          /\ jobs' = jobs
                          /\ genSeq' = genSeq
                          /\ embSeq' = embSeq
                    /\ (st'[p].stats.skipped # st[p].stats.skipped) =>
                          /\ exists
                          /\ st'[p].stats = CountSkipped(st[p].stats)]_vars

\* A batch held the same key twice: the first occurrence was inserted as new
\* and the second one was skipped; the key has one record.
C25_Witness_SecondOccurrenceSkipped ==
    /\ LoopOver("r1")
    /\ Len(st["r1"].raw_jobs) = 2
    /\ DupInBatch("r1")
    /\ st["r1"].stats.new = 1
    /\ st["r1"].stats.skipped = 1
    /\ st["r1"].stats.errors = 0
    /\ Cardinality(find_job_by_external_id(st["r1"].source,
                       st["r1"].raw_jobs[2].external_id)) = 1

\* ------------------------------------------------------------------------
\* Status repair of the sweep (checked under SweepSpec)
\* ------------------------------------------------------------------------
\* C26 (as claimed) -- Status repair only on success: the sweep's step after
\* enrich_job changes the jobs table (status processing -> active) only if
\* the enrich_job call it has just made for that candidate succeeded.
C26_RepairOnlyOnSuccess ==
    [][(Sweeping /\ st["r2"].pc = "fix" /\ jobs' # jobs) => ~st["r2"].en_failed]_vars

\* ------------------------------------------------------------------------
\* The embedding of a record (checked under SweepSpec)
\* ------------------------------------------------------------------------
\* The step is the successful update_job of an enrich_job call for record id.
EnrichWrites(id) ==
    \E p \in Procs :
        /\ st[p].pc = "en_update"
        /\ st[p].job_id = id
        /\ st'[p].pc = ReturnPc(st[p])
        /\ ~st'[p].en_failed
        /\ "generate" \in st[p].en_trace
        /\ jobs'[id].embedding = st[p].emb

\* The step is the dedup-hit update of record id from an enriched donor of
\* the same content hash.
CloneWrites(id) ==
    \E p \in Procs :
        /\ st[p].pc = "clone"
        /\ st[p].created = id
        /\ \E d \in JobIds :
              /\ d # id
              /\ jobs[d].embedding # 0
              /\ jobs[d].description_hash = jobs[id].description_hash
              /\ jobs'[id].embedding = jobs[d].embedding

\* C27 -- A record created by ingestion starts with status processing and a
\* null embedding; its embedding becomes non-null only by the write of a
\* successful enrich_job call for it or by a clone from an enriched donor of
\* the same hash; and whenever its embedding is non-null its resume guide and
\* prep questions are present too.
C27_EmbeddingOnlyByEnrichOrClone ==
    /\ [](\A id \in JobIds :
            /\ (jobs[id].embedding # 0) =>
                  /\ jobs[id].resume_guide_generated # 0
                  /\ jobs[id].prep_guide_generated # 0
            /\ (jobs[id].status = "processing" /\ jobs[id].gen_calls = 0) =>
                  jobs[id].embedding = 0)
    /\ [][/\ \A id \in (Len(jobs) + 1)..Len(jobs') :
                /\ jobs'[id].status = "processing"
                /\ jobs'[id].embedding = 0
                /\ jobs'[id].resume_guide_generated = 0
                /\ jobs'[id].prep_guide_generated = 0
          /\ \A id \in 1..Len(jobs) :
                (jobs'[id].embedding # jobs[id].embedding) =>
                    /\ jobs'[id].embedding # 0
                    /\ EnrichWrites(id) \/ CloneWrites(id)]_vars

\* One record was enriched by its own generation call and a second record of
\* the same content holds the clone of its guide, questions and embedding.
C27_Witness_EnrichedAndCloned ==
    \E a, b \in JobIds :
        /\ a # b
        /\ jobs[a].gen_calls = 1
        /\ jobs[a].embedding # 0
        /\ jobs[b].gen_calls = 0
        /\ jobs[b].embedding = jobs[a].embedding
        /\ jobs[b].prep_guide_generated = jobs[a].prep_guide_generated
        /\ jobs[b].status = "active"

\* ------------------------------------------------------------------------
\* Skill resolution of enrich_job (checked under EnrichSpec)
\* ------------------------------------------------------------------------
\* The enrich_job call of p has written its update to a record still present.
EnrichSucceeded(p) ==
    /\ "written" \in st[p].en_trace
    /\ ~st[p].en_failed
    /\ st[p].job_id \in JobIds

\* C28 -- Skill resolution. After a successful enrich_job the record's skills
\* are its originally required skills when that list was non-empty, and the
\* AI-extracted skills otherwise.
C28_SkillResolution ==
    \A p \in Procs :
        EnrichSucceeded(p) =>
            LET original == st[p].before.skills_required
                skills   == jobs[st[p].job_id].skills_required
            IN  /\ (original # {}) => skills = original
                /\ (original = {}) => skills = {"ai-skill"}

\* Two posted jobs were enriched: the one posted without skills holds the
\* extracted skills, the one posted with skills kept them.
C28_Witness_KeptAndExtracted ==
    /\ EnrichSucceeded("r1")
    /\ EnrichSucceeded("r2")
    /\ st["r1"].job_id # st["r2"].job_id
    /\ st["r1"].before.skills_required = {}
    /\ jobs[st["r1"].job_id].skills_required = {"ai-skill"}
    /\ st["r2"].before.skills_required = {"sql"}
    /\ jobs[st["r2"].job_id].skills_required = {"sql"}

\* ------------------------------------------------------------------------
\* Release by a worker that is not the holder (checked under LockSpec)
\* ------------------------------------------------------------------------
\* C29 (as claimed) -- A worker's release never frees a lock that another
\* worker holds: when the release step of one worker runs while a different
\* worker, still in its sweep, holds the unexpired lock, the row is still
\* unexpired after the step.
C29_ReleaseSparesOthersLock ==
    [][\A w \in Workers :
          (/\ wpc[w] = "release"
           /\ wpc'[w] = "idle"
           /\ holder.w \notin {Null, w}
           /\ wpc[holder.w] = "sweep"
           /\ ~LockFree(lockRow, now)) =>
              ~LockFree(lockRow', now)]_vars

\* ------------------------------------------------------------------------
\* The sweep next to a running ingest run (checked under RaceSpec)
\* ------------------------------------------------------------------------
\* The ingest run p has inserted the record and is inside its enrich_job call.
IngestEnriching(p, id) ==
    /\ st[p].kind = "ingest"
    /\ st[p].pc \in {"en_get", "en_ai", "en_update"}
    /\ st[p].created = id
    /\ st[p].job_id = id

\* C30 (as claimed) -- No double enrichment of one record: while an ingest
\* run is enriching a record it has inserted, the sweep does not invoke the
\* generation capability for that record.
C30_NoDoubleEnrichment ==
    \A p, q \in Procs :
        \A id \in JobIds :
            (/\ IngestEnriching(p, id)
             /\ st[q].kind = "sweep"
             /\ st[q].job_id = id) =>
                "generate" \notin st[q].en_trace

====
